---- MODULE Spec2Model ----
(***************************************************************************)
(* CommonVoice._generate_examples (example-common_voice_17_0.py): the join *)
(* of the transcript rows, indexed by normalized audio filename, with the  *)
(* entries streamed out of the audio archives.                             *)
(*                                                                         *)
(* Strings are sequences of one-character strings, so that endswith, +=,   *)
(* os.path.split and os.path.join are computed character by character.     *)
(* Python dicts are functions from keys to values; dict objects live in a  *)
(* heap and are referred to by their index, so that sharing and copying of *)
(* a row are visible.  The transcript rows and the archive entries are     *)
(* produced lazily by the reader and the archive iterators; the variables  *)
(* transcript and archives record what has been consumed so far.           *)
(***************************************************************************)
EXTENDS Integers, Sequences, FiniteSets, TLC

VARIABLES transcript, archives, local_extracted_archive_paths,
          pc, err, heap, metadata, i, out

vars == <<transcript, archives, local_extracted_archive_paths,
          pc, err, heap, metadata, i, out>>

(* ------------------------------ bounds --------------------------------- *)
MaxRows == 2
MaxArchives == 2
MaxEntries == 2

(* ------------------------------ strings -------------------------------- *)
EmptyStr == <<>>
EXT == <<".", "m", "p", "3">>
SEP == "/"

\* str.endswith(suffix)
endswith(s, suffix) ==
    /\ Len(s) >= Len(suffix)
    /\ SubSeq(s, Len(s) - Len(suffix) + 1, Len(s)) = suffix

\* os.path.split(p): <<head, tail>>, tail is what follows the last separator
os_path_split_nosplit(p) == <<EmptyStr, p>>
os_path_split(p) ==
    LET seps == {k \in 1..Len(p) : p[k] = SEP}
        last == IF seps = {} THEN 0 ELSE CHOOSE k \in seps : \A m \in seps : m <= k
        stripped == {k \in 1..last : p[k] # SEP}
        hlen == IF stripped = {} THEN last
                ELSE CHOOSE k \in stripped : \A m \in stripped : m <= k
    IN  <<SubSeq(p, 1, hlen), SubSeq(p, last + 1, Len(p))>>

\* os.path.join(a, p) of posixpath, two arguments
os_path_join_swapped(a, p) ==
    IF Len(a) > 0 /\ a[1] = SEP THEN a
    ELSE IF Len(p) = 0 \/ p[Len(p)] = SEP THEN p \o a
    ELSE p \o <<SEP>> \o a
os_path_join(a, p) ==
    IF Len(p) > 0 /\ p[1] = SEP THEN p
    ELSE IF Len(a) = 0 \/ a[Len(a)] = SEP THEN a \o p
    ELSE a \o <<SEP>> \o p

(* ------------------------------- dicts --------------------------------- *)
\* d[k] = v
dict_set_keepfirst(d, k, v) ==
    [x \in DOMAIN d \cup {k} |-> IF x \in DOMAIN d THEN d[x] ELSE v]
dict_set(d, k, v) ==
    [x \in DOMAIN d \cup {k} |-> IF x = k THEN v ELSE d[x]]

\* del d[k]
dict_del(d, k) == [x \in DOMAIN d \ {k} |-> d[x]]

\* dict(heap[ref]): a new object with the same items; <<heap, reference>>
dict_copy_alias(hp, ref) == <<hp, ref>>
dict_copy(hp, ref) == <<Append(hp, hp[ref]), Len(hp) + 1>>

\* metadata[row["path"]] = row
table_insert_keepfirst(md, key, ref) == dict_set_keepfirst(md, key, ref)
table_insert(md, key, ref) == dict_set(md, key, ref)

\* the empty dict
EmptyDict == [x \in {} |-> EmptyStr]

(* ------------------------------ schema --------------------------------- *)
\* list(self._info().features.keys())
data_fields ==
    <<"client_id", "path", "audio", "sentence", "up_votes", "down_votes",
      "age", "gender", "accent", "locale", "segment", "variant">>

(* ---------------------- one row of the transcript ---------------------- *)
\* if not row["path"].endswith(".mp3"): row["path"] += ".mp3"
append_extension_nodot(row) ==
    IF ~endswith(row["path"], EXT)
    THEN dict_set(row, "path", row["path"] \o Tail(EXT))
    ELSE row
append_extension(row) ==
    IF ~endswith(row["path"], EXT)
    THEN dict_set(row, "path", row["path"] \o EXT)
    ELSE row

\* if "accents" in row: row["accent"] = row["accents"]; del row["accents"]
rename_accents_keep(row) ==
    IF "accents" \in DOMAIN row
    THEN IF "accent" \in DOMAIN row THEN dict_del(row, "accents")
         ELSE dict_del(dict_set(row, "accent", row["accents"]), "accents")
    ELSE row
rename_accents(row) ==
    IF "accents" \in DOMAIN row
    THEN dict_del(dict_set(row, "accent", row["accents"]), "accents")
    ELSE row

\* for field in data_fields: if field not in row: row[field] = ""
RECURSIVE fill_from(_, _)
fill_from(row, k) ==
    IF k > Len(data_fields) THEN row
    ELSE fill_from(IF data_fields[k] \notin DOMAIN row
                   THEN dict_set(row, data_fields[k], EmptyStr)
                   ELSE row,
                   k + 1)

fill_missing_skip(row) == row
fill_missing(row) == fill_from(row, 1)

(* ------------------------------ inputs --------------------------------- *)
PathA == <<"a">>
PathAExt == <<"a", ".", "m", "p", "3">>
PathB == <<"b">>

\* a row of a current transcript: every column of the schema but audio
ModernRow(p) ==
    [f \in {"client_id", "path", "sentence", "up_votes", "down_votes", "age",
            "gender", "accent", "locale", "segment", "variant"} |->
        CASE f = "path" -> p
          [] f = "sentence" -> <<"h", "i">>
          [] f = "accent" -> <<"u", "s">>
          [] f = "up_votes" -> <<"2">>
          [] f = "down_votes" -> <<"0">>
          [] OTHER -> EmptyStr]

\* a row of an older transcript: the accent column has its legacy name
LegacyRow(p) ==
    [f \in {"path", "sentence", "accents"} |->
        CASE f = "path" -> p
          [] f = "sentence" -> <<"y", "o">>
          [] OTHER -> <<"u", "k">>]

\* a row that carries both names of the accent column
BothRow(p) ==
    [f \in {"path", "sentence", "accent", "accents"} |->
        CASE f = "path" -> p
          [] f = "sentence" -> <<"o", "k">>
          [] f = "accent" -> <<"u", "s">>
          [] OTHER -> <<"u", "k">>]

\* a row with the path column alone
SparseRow(p) == [f \in {"path"} |-> p]

\* a row of a transcript that has no path column
NoPathRow == [f \in {"sentence"} |-> <<"n", "o">>]

\* the rows the reader may produce
Rows ==
    { ModernRow(PathA), LegacyRow(PathAExt), BothRow(PathA), SparseRow(PathB),
      NoPathRow }

\* the entries an archive iterator may produce: (path, content of file.read())
Entries ==
    { [path |-> <<"a", ".", "m", "p", "3">>, content |-> "B1"],
      [path |-> <<"d", "/", "a", ".", "m", "p", "3">>, content |-> "B2"],
      [path |-> <<"d", "/", "b", ".", "m", "p", "3">>, content |-> "B1"] }

\* dl_manager.extract(archive_paths[split]): one directory per archive
ExtractedPath(n) == IF n = 1 THEN <<"x">> ELSE <<"y", "/">>

(* ------------------------------ the join ------------------------------- *)
\* not dl_manager.is_streaming: the list of extraction directories;
\* dl_manager.is_streaming: {}.get(split), that is None
Init ==
    /\ transcript = <<>>
    /\ \E n \in 0..MaxArchives :
        /\ archives = [a \in 1..n |-> <<>>]
        /\ \E streaming \in BOOLEAN :
            local_extracted_archive_paths =
                IF streaming THEN [isNone |-> TRUE, list |-> <<>>]
                ELSE [isNone |-> FALSE, list |-> [a \in 1..n |-> ExtractedPath(a)]]
    /\ pc = "metadata"
    /\ err = "none"
    /\ heap = <<>>
    /\ metadata = EmptyDict
    /\ i = 0
    /\ out = <<>>

\* truth value of local_extracted_archive_paths
truthy(l) == ~l.isNone /\ Len(l.list) > 0

\* for row in reader: ... metadata[row["path"]] = row
ReadRow ==
    /\ pc = "metadata"
    /\ Len(transcript) < MaxRows
    /\ \E raw \in Rows :
        /\ transcript' = Append(transcript, raw)
        /\ IF "path" \notin DOMAIN raw
           THEN /\ heap' = Append(heap, raw)
                /\ err' = "KeyError"
                /\ pc' = "raised"
                /\ UNCHANGED metadata
           ELSE LET row == fill_missing(rename_accents(append_extension(raw)))
                IN  /\ heap' = Append(heap, row)
                    /\ metadata' = table_insert(metadata, row["path"], Len(heap) + 1)
                    /\ UNCHANGED <<err, pc>>
    /\ UNCHANGED <<archives, local_extracted_archive_paths, i, out>>

\* the reader is exhausted: for i, audio_archive in enumerate(archives)
EndOfTranscript ==
    /\ pc = "metadata"
    /\ pc' = "archives"
    /\ i' = 1
    /\ UNCHANGED <<transcript, archives, local_extracted_archive_paths,
                   err, heap, metadata, out>>

\* the number of entries the archive iterators have produced so far
RECURSIVE produced_upto(_)
produced_upto(a) == IF a = 0 THEN 0 ELSE Len(archives[a]) + produced_upto(a - 1)

\* yield path, result
yield_first(o, item) == <<item>> \o o
yield(o, item) == Append(o, item)

\* for path, file in audio_archive: the body of the loop
ProcessEntry ==
    /\ pc = "archives"
    /\ i <= Len(archives)
    /\ produced_upto(Len(archives)) < MaxEntries
    /\ \E entry \in Entries :
        LET path == entry.path
            content == entry.content
            filename == os_path_split(path)[2]
        IN  /\ archives' = [archives EXCEPT ![i] = Append(@, entry)]
            /\ IF filename \in DOMAIN metadata
               THEN LET copied == dict_copy(heap, metadata[filename])
                        result == copied[2]
                        newpath == IF truthy(local_extracted_archive_paths)
                                   THEN os_path_join(local_extracted_archive_paths.list[i], path)
                                   ELSE path
                        audio == [path |-> newpath, bytes |-> content]
                    IN  /\ heap' = [copied[1] EXCEPT ![result] =
                                       dict_set(dict_set(@, "audio", audio), "path", newpath)]
                        /\ out' = yield(out, <<newpath, result>>)
               ELSE UNCHANGED <<heap, out>>
    /\ UNCHANGED <<transcript, local_extracted_archive_paths, pc, err, metadata, i>>

\* audio_archive is exhausted: the next archive
EndOfArchive ==
    /\ pc = "archives"
    /\ i <= Len(archives)
    /\ i' = i + 1
    /\ UNCHANGED <<transcript, archives, local_extracted_archive_paths,
                   pc, err, heap, metadata, out>>

\* archives is exhausted: the generator returns
Return ==
    /\ pc = "archives"
    /\ i > Len(archives)
    /\ pc' = "done"
    /\ UNCHANGED <<transcript, archives, local_extracted_archive_paths,
                   err, heap, metadata, i, out>>

Next == ReadRow \/ EndOfTranscript \/ ProcessEntry \/ EndOfArchive \/ Return

Spec == Init /\ [][Next]_vars

(* ------------------- notions the properties are about ------------------ *)
\* the last component of a path: what follows its last separator
BaseName(p) ==
    LET start == CHOOSE n \in 1..(Len(p) + 1) :
                    /\ \A m \in n..Len(p) : p[m] # "/"
                    /\ n = 1 \/ p[n - 1] = "/"
    IN  SubSeq(p, start, Len(p))

HasExtension(p) ==
    /\ Len(p) >= 4
    /\ p[Len(p) - 3] = "." /\ p[Len(p) - 2] = "m"
    /\ p[Len(p) - 1] = "p" /\ p[Len(p)] = "3"

NormalizedName(p) == IF HasExtension(p) THEN p ELSE p \o <<".", "m", "p", "3">>

JoinPath(a, p) ==
    IF Len(p) > 0 /\ p[1] = "/" THEN p
    ELSE IF Len(a) = 0 \/ a[Len(a)] = "/" THEN a \o p
    ELSE a \o <<"/">> \o p

\* the rows read so far that have a path, by position in the transcript
RowsWithPath == {k \in 1..Len(transcript) : "path" \in DOMAIN transcript[k]}

TranscriptNames == {NormalizedName(transcript[k]["path"]) : k \in RowsWithPath}

\* the position of the last row read whose normalized filename is name, or 0
LastRow(name) ==
    LET S == {k \in RowsWithPath : NormalizedName(transcript[k]["path"]) = name}
    IN  IF S = {} THEN 0 ELSE CHOOSE k \in S : \A m \in S : m <= k

\* the entries consumed so far, in the order of consumption
RECURSIVE ConsumedFrom(_)
ConsumedFrom(a) ==
    IF a > Len(archives) THEN <<>>
    ELSE [j \in 1..Len(archives[a]) |->
            [archive |-> a, path |-> archives[a][j].path,
             content |-> archives[a][j].content]]
         \o ConsumedFrom(a + 1)

Consumed == ConsumedFrom(1)

\* the consumed entries whose base filename is in names, in order
MatchingIn(names) ==
    LET Test(e) == BaseName(e.path) \in names
    IN  SelectSeq(Consumed, Test)

\* the k-th emitted record
Record(k) == heap[out[k][2]]

Joining == pc \in {"archives", "done"}

FieldSet == {data_fields[k] : k \in 1..Len(data_fields)}

(* ------------------------------- claims -------------------------------- *)
\* C1: whenever an archive entry is consumed, a record is emitted for it if
\* and only if its base filename is a key of the Metadata Table; an entry
\* without a matching row leaves the output as it is, raises no error, and
\* the pass goes on.
C1_EmitIffFilenameInTable ==
    [][archives' # archives =>
        LET e == archives'[i][Len(archives'[i])]
        IN  /\ BaseName(e.path) \in DOMAIN metadata =>
                /\ Len(out') = Len(out) + 1
                /\ SubSeq(out', 1, Len(out)) = out
                /\ heap'[out'[Len(out')][2]]["audio"].bytes = e.content
            /\ BaseName(e.path) \notin DOMAIN metadata => out' = out
            /\ err' = "none"
            /\ pc' = "archives"]_vars

\* a pass that skipped its first entry and emitted a record for a later one
C1_Witness ==
    /\ pc = "done"
    /\ Len(Consumed) >= 2
    /\ BaseName(Consumed[1].path) \notin DOMAIN metadata
    /\ BaseName(Consumed[2].path) \in DOMAIN metadata
    /\ Len(out) >= 1

\* C2: every key of the Metadata Table ends with the extension; every row
\* read is indexed under its path, with the extension appended when the path
\* lacks it and unchanged otherwise; an archive entry whose base filename is
\* that normalized path has a record emitted for it.
C2_ExtensionAppendedBeforeIndexing ==
    /\ \A key \in DOMAIN metadata : HasExtension(key)
    /\ \A k \in RowsWithPath :
        LET p == transcript[k]["path"]
        IN  /\ HasExtension(p) => p \in DOMAIN metadata
            /\ ~HasExtension(p) => (p \o <<".", "m", "p", "3">>) \in DOMAIN metadata
    /\ Joining =>
        LET names == TranscriptNames
            entries == Consumed
        IN  \A n \in 1..Len(entries) :
                BaseName(entries[n].path) \in names =>
                    \E k \in 1..Len(out) :
                        /\ BaseName(out[k][1]) = BaseName(entries[n].path)
                        /\ Record(k)["audio"].bytes = entries[n].content

\* a row with path a, without extension, matched by the entry d/a.mp3
C2_Witness ==
    /\ pc = "done"
    /\ \E k \in RowsWithPath : transcript[k]["path"] = <<"a">>
    /\ \A k \in RowsWithPath : ~HasExtension(transcript[k]["path"])
    /\ \E k \in 1..Len(out) : BaseName(out[k][1]) = <<"a", ".", "m", "p", "3">>

\* the row of the transcript a record was made from
SourceRow(k) == transcript[LastRow(BaseName(out[k][1]))]

C4_LegacyAccentMigrated ==
    \A k \in RowsWithPath :
        "accents" \in DOMAIN transcript[k] =>
            /\ "accents" \notin DOMAIN heap[k]
            /\ "accent" \in DOMAIN heap[k]
            /\ heap[k]["accent"] = transcript[k]["accents"]
            /\ (metadata[NormalizedName(transcript[k]["path"])] = k
                    => \A n \in 1..Len(out) :
                          BaseName(out[n][1]) = NormalizedName(transcript[k]["path"])
                              => Record(n)["accent"] = transcript[k]["accents"])

\* the table holds a row that came with both accent and accents
C4_Witness ==
    /\ pc = "done"
    /\ \E key \in DOMAIN metadata :
        /\ {"accent", "accents"} \subseteq DOMAIN transcript[metadata[key]]
        /\ \E n \in 1..Len(out) : BaseName(out[n][1]) = key

\* the path an entry is to be emitted under
ResolvedPath(e) ==
    IF local_extracted_archive_paths.isNone \/ local_extracted_archive_paths.list = <<>>
    THEN e.path
    ELSE JoinPath(local_extracted_archive_paths.list[e.archive], e.path)

\* C5: the k-th emitted record belongs to the k-th matching entry; its key,
\* its path field and audio.path are the join of the extraction prefix of
\* the entry's archive with the raw entry path when a prefix list is
\* supplied, the raw entry path otherwise, and audio.bytes is the entry's
\* content.
C5_ResolvedPathAndBytes ==
    Joining =>
        LET matching == MatchingIn(DOMAIN metadata)
        IN  /\ Len(out) <= Len(matching)
            /\ \A k \in 1..Len(out) :
                LET resolved == ResolvedPath(matching[k])
                    record == Record(k)
                IN  /\ out[k][1] = resolved
                    /\ record["path"] = resolved
                    /\ record["audio"].path = resolved
                    /\ record["audio"].bytes = matching[k].content

\* records emitted from both archives under their extraction prefixes
C5_Witness ==
    /\ pc = "done"
    /\ ~local_extracted_archive_paths.isNone
    /\ Len(out) = 2
    /\ out[1][1] = <<"x", "/", "a", ".", "m", "p", "3">>
    /\ out[2][1] = <<"y", "/", "d", "/", "a", ".", "m", "p", "3">>

\* C6: the emitted records are, in order, the consumed entries whose base
\* filename is the normalized path of a row of the transcript, archive by
\* archive and entry by entry, whatever the order of the rows.
C6_ArchiveOrder ==
    Joining =>
        LET matching == MatchingIn(TranscriptNames)
        IN  /\ Len(out) = Len(matching)
            /\ \A k \in 1..Len(out) :
                /\ BaseName(out[k][1]) = BaseName(matching[k].path)
                /\ Record(k)["audio"].bytes = matching[k].content
                /\ \A n \in 1..(k - 1) : matching[n].archive <= matching[k].archive

\* rows read as b, a and entries consumed as a, b: emitted as a, b
C6_Witness ==
    /\ pc = "done"
    /\ Len(transcript) = 2
    /\ transcript[1] = SparseRow(PathB)
    /\ transcript[2] = ModernRow(PathA)
    /\ Len(out) = 2
    /\ BaseName(out[1][1]) = <<"a", ".", "m", "p", "3">>
    /\ BaseName(out[2][1]) = <<"b", ".", "m", "p", "3">>

\* C7: the table maps a filename to the last row read whose normalized path
\* is that filename, every record emitted for the filename carries the
\* fields of that row, and repeated filenames raise no error.
C7_LastRowWins ==
    /\ \A key \in DOMAIN metadata : metadata[key] = LastRow(key)
    /\ \A key \in TranscriptNames : key \in DOMAIN metadata
    /\ \A k \in 1..Len(out) :
        LET row == SourceRow(k)
            record == Record(k)
        IN  \A f \in DOMAIN row \ {"path", "accent", "accents"} :
                f \in DOMAIN record /\ record[f] = row[f]
    /\ (\A k \in 1..Len(transcript) : "path" \in DOMAIN transcript[k]) => err = "none"

\* rows a and a.mp3 read in this order, and a record emitted for a.mp3
C7_Witness ==
    /\ pc = "done"
    /\ Len(transcript) = 2
    /\ transcript[1] = ModernRow(PathA)
    /\ transcript[2] = LegacyRow(PathAExt)
    /\ Len(out) >= 1

\* the base filenames of the consumed entries
EntryFilenames == {BaseName(Consumed[n].path) : n \in 1..Len(Consumed)}

\* C8, as stated: the emitted keys are among the entry filenames that are
\* keys of the table.
C8_Original ==
    {out[k][1] : k \in 1..Len(out)} \subseteq (EntryFilenames \cap DOMAIN metadata)

\* C8, amended: the base filenames of the emitted keys are among the entry
\* filenames that are keys of the table.
C8_EmittedFilenamesMatch ==
    {BaseName(out[k][1]) : k \in 1..Len(out)} \subseteq (EntryFilenames \cap DOMAIN metadata)

\* a record emitted under a key that is a path, next to a skipped entry
C8_Witness ==
    /\ pc = "done"
    /\ \E k \in 1..Len(out) : out[k][1] # BaseName(out[k][1])
    /\ \E n \in 1..Len(Consumed) : BaseName(Consumed[n].path) \notin DOMAIN metadata

\* the heap references the table holds
TableRefs == {metadata[key] : key \in DOMAIN metadata}

\* C10: no entry is consumed before the table is complete; once the pass is
\* over the archives no row is read and neither the table nor its rows
\* change; the path of a row of the table stays its key; a record is an
\* object of its own, with the key it was emitted under as its path, and is
\* not changed by a later emission.
C10_TableReadOnly ==
    /\ [](/\ Len(Consumed) > 0 => Joining
          /\ \A key \in DOMAIN metadata : heap[metadata[key]]["path"] = key
          /\ \A k \in 1..Len(out) :
                /\ out[k][2] \notin TableRefs
                /\ \A n \in 1..Len(out) : out[n][2] = out[k][2] => n = k
                /\ Record(k)["path"] = out[k][1]
                /\ Record(k)["audio"].path = out[k][1])
    /\ [][/\ Joining =>
                /\ transcript' = transcript
                /\ metadata' = metadata
                /\ \A r \in TableRefs : heap'[r] = heap[r]
          /\ \A k \in 1..Len(out) :
                /\ out'[k] = out[k]
                /\ heap'[out[k][2]] = heap[out[k][2]]]_vars

\* two entries with the same base filename, emitted under different paths
C10_Witness ==
    /\ pc = "done"
    /\ Len(out) = 2
    /\ BaseName(out[1][1]) = BaseName(out[2][1])
    /\ out[1][1] # out[2][1]
    /\ Record(1)["audio"].bytes # Record(2)["audio"].bytes

====
